---- MODULE Spec2Model ----
(***************************************************************************)
(* A model of the user-management service: the token service              *)
(* (utils/jwt), the JWT and admin middleware, the user and organization    *)
(* handlers with the services and repositories they call, and the storage *)
(* (the users and organizations tables) they act on.                      *)
(*                                                                         *)
(* Time is counted in ticks; TicksPerSecond ticks make one second, so the  *)
(* truncation of a JWT NumericDate to whole seconds is visible.            *)
(***************************************************************************)
EXTENDS Integers, Sequences, FiniteSets, TLC

\* ------------------------------------------------------------------ bounds

\* Clock resolution of the model: ticks per second.
TicksPerSecond == 2
\* time.Hour / time.Second.
SecondsPerHour == 3600
TicksPerHour == TicksPerSecond * SecondsPerHour
\* The clock stops after this many hours.
MaxHours == 2
\* The clock is observed only this many ticks around each full hour.
ClockWindow == 2
\* Largest user id and organization id handed to the token service on its own.
MaxID == 1
\* Largest expiry (hours) handed to the token service on its own.
MaxExpiry == 2

\* ----------------------------------------------------------------- values

\* The secrets a token may be signed or validated with; ServerSecret is
\* config.JWT.Secret's default.
ServerSecret == "supersecretkey"
Secrets == {ServerSecret, "attacker"}

\* Role strings: the two the service knows and the empty one (omitted in
\* JSON).
Roles == {"admin", "user", ""}

HMACAlgs == {"HS256", "HS384", "HS512"}

VARIABLES
    users,      \* users table: id -> row (soft-deleted rows are kept)
    orgs,       \* organizations table: id -> row
    config,     \* config.Config: [secret, expiry]
    now,        \* the clock, in ticks
    tokens,     \* the tokens Login has handed out
    resp,       \* the response to the latest HTTP request
    tsIn,       \* token service alone: the arguments of the issue call
    tsTok,      \* token service alone: the token issued (a set: none or one)
    tsRes,      \* token service alone: the latest ValidateToken call
    procs       \* concurrent requests: the position and locals of each

vars == <<users, orgs, config, now, tokens, resp, tsIn, tsTok, tsRes, procs>>

\* ---------------------------------------------------------- token service

\* jwt.NewNumericDate: the instant truncated to whole seconds.
NumericDate(t) == t \div TicksPerSecond

\* json.Marshal of JWTClaims: organization_id and role carry omitempty, so a
\* zero organization id and an empty role are left out of the payload.
EncodeClaims(c) ==
    LET keys == {"user_id", "exp", "iat"}
                \cup (IF c.organization_id # 0 THEN {"organization_id"} ELSE {})
                \cup (IF c.role # "" THEN {"role"} ELSE {})
    IN [k \in keys |-> c[k]]

\* json.Unmarshal into JWTClaims: an absent key leaves the zero value.
DecodeClaims(p) ==
    [user_id         |-> IF "user_id" \in DOMAIN p THEN p["user_id"] ELSE 0,
     organization_id |-> IF "organization_id" \in DOMAIN p THEN p["organization_id"] ELSE 0,
     role            |-> IF "role" \in DOMAIN p THEN p["role"] ELSE "",
     exp             |-> p["exp"],
     iat             |-> p["iat"]]

\* The signature of a payload under an algorithm and a key, kept symbolic:
\* two signatures are equal iff algorithm, key and payload are.
Sign(alg, key, payload) == [alg |-> alg, key |-> key, payload |-> payload]

\* token.SignedString: header.payload.signature.
SignedString(alg, key, payload) ==
    [parts |-> 3, header |-> [alg |-> alg], payload |-> payload,
     sig |-> Sign(alg, key, payload)]

\* A variant that leaves the organization out of the claims.
GenerateTokenWithOrganization_DropsOrganization(userID, organizationID, role, secret, expiry, t) ==
    LET claims == [user_id |-> userID, organization_id |-> 0,
                   role |-> role,
                   exp |-> NumericDate(t + expiry * TicksPerHour),
                   iat |-> NumericDate(t)]
    IN SignedString("HS256", secret, EncodeClaims(claims))

\* GenerateTokenWithOrganization, called at instant t.
GenerateTokenWithOrganization(userID, organizationID, role, secret, expiry, t) ==
    LET claims == [user_id |-> userID, organization_id |-> organizationID,
                   role |-> role,
                   exp |-> NumericDate(t + expiry * TicksPerHour),
                   iat |-> NumericDate(t)]
    IN SignedString("HS256", secret, EncodeClaims(claims))

\* The result of ValidateToken: an error string ("" for nil) and the claims
\* (a set: empty for nil).
ValidateError(e) == [err |-> e, claims |-> {}]

\* A variant that still accepts a token at the instant of its exp claim.
ValidateToken_ExpiresAfterExp(tok, secret, t) ==
    IF tok.parts # 3 THEN ValidateError("token is malformed")
    ELSE IF tok.header.alg \notin HMACAlgs
        THEN ValidateError("unexpected signing method")
    ELSE IF tok.sig # Sign(tok.header.alg, secret, tok.payload)
        THEN ValidateError("signature is invalid")
    ELSE IF ~(t <= tok.payload["exp"] * TicksPerSecond)
        THEN ValidateError("token is expired")
    ELSE [err |-> "", claims |-> {DecodeClaims(tok.payload)}]

\* A variant that verifies under whatever algorithm the header names, without
\* the key function's refusal of the methods that are not HMAC.
ValidateToken_TrustsAlgHeader(tok, secret, t) ==
    IF tok.parts # 3 THEN ValidateError("token is malformed")
    ELSE IF tok.sig # Sign(tok.header.alg,
                           IF tok.header.alg \in HMACAlgs THEN secret ELSE tok.sig.key,
                           tok.payload)
        THEN ValidateError("signature is invalid")
    ELSE IF ~(t < tok.payload["exp"] * TicksPerSecond)
        THEN ValidateError("token is expired")
    ELSE [err |-> "", claims |-> {DecodeClaims(tok.payload)}]

\* A variant that does not verify the exp claim.
ValidateToken_IgnoresExpiry(tok, secret, t) ==
    IF tok.parts # 3 THEN ValidateError("token is malformed")
    ELSE IF tok.header.alg \notin HMACAlgs
        THEN ValidateError("unexpected signing method")
    ELSE IF tok.sig # Sign(tok.header.alg, secret, tok.payload)
        THEN ValidateError("signature is invalid")
    ELSE [err |-> "", claims |-> {DecodeClaims(tok.payload)}]

\* ValidateToken, called at instant t: jwt.ParseWithClaims splits the token,
\* asks the key function for the key (which refuses every method that is not
\* HMAC), verifies the signature and then the registered claims (exp).
ValidateToken(tok, secret, t) ==
    IF tok.parts # 3 THEN ValidateError("token is malformed")
    ELSE IF tok.header.alg \notin HMACAlgs
        THEN ValidateError("unexpected signing method")
    ELSE IF tok.sig # Sign(tok.header.alg, secret, tok.payload)
        THEN ValidateError("signature is invalid")
    ELSE IF ~(t < tok.payload["exp"] * TicksPerSecond)
        THEN ValidateError("token is expired")
    ELSE [err |-> "", claims |-> {DecodeClaims(tok.payload)}]

\* ------------------------------------------------------------------ clock

\* The token service's own variables while no call of it is recorded.
NoIssue == [user_id |-> 0, organization_id |-> 0, role |-> "", secret |-> "",
            expiry |-> 0, at |-> 0]
NoRes == [token |-> {}, secret |-> "", at |-> 0, err |-> "", claims |-> {}]

MaxNow == MaxHours * TicksPerHour + ClockWindow

InClockWindow(t) ==
    \/ t % TicksPerHour <= ClockWindow
    \/ t % TicksPerHour >= TicksPerHour - ClockWindow

\* Time passes for the token service on its own: a tick, an hour, or up to
\* shortly before the next full hour.
TSAdvanceTime ==
    /\ tsRes = NoRes
    /\ \E d \in {1, TicksPerHour - ClockWindow, TicksPerHour} :
          /\ now + d <= MaxNow
          /\ InClockWindow(now + d)
          /\ now' = now + d
    /\ UNCHANGED <<users, orgs, config, tokens, resp, tsIn, tsTok, tsRes, procs>>

\* Requests the server serves at the same time, each on its own goroutine.
NumProcs == 2

\* A goroutine that serves no request: its position (pc), the service call
\* it runs (op), the call's arguments, the row it loaded (snap, a set: none
\* or one), the ids of the rows its open transaction has marked deleted
\* (deleting) and the error it returned.
IdleProc ==
    [pc |-> "idle", op |-> "", id |-> 0, name |-> "", email |-> "", password |-> "",
     organization_id |-> 0, role |-> "", org_name |-> "", snap |-> {},
     deleting |-> {}, err |-> ""]
NoProcs == [p \in 1..NumProcs |-> IdleProc]

\* ---------------------------------------------------------------- storage

\* Input values of the requests.
Names == {"Ann"}
Emails == {"a@x.com", "b@x.com"}
Passwords == {"secret1"}
OrgNames == {"acme", "beta"}
DisplayNames == {"Acme Corp"}
\* Rows the tables hold at most.
MaxUsers == 2
MaxOrgs == 2

\* strings.Contains(email, "@")
ContainsAt(email) == email \in Emails

\* len(password)
PasswordLen(password) ==
    CASE password = "" -> 0
      [] password = "abc" -> 3
      [] OTHER -> 7

\* A password field is a plaintext (rounds 0), a bcrypt digest of the
\* plaintext (rounds 1), or a digest of a digest string (rounds 2; deeper
\* digests are not told apart).
Plain(password) == [plain |-> password, rounds |-> 0]

\* bcrypt.GenerateFromPassword applied to the field as it stands.
Bcrypt(pw) == [plain |-> pw.plain, rounds |-> IF pw.rounds >= 1 THEN 2 ELSE 1]

\* User.BeforeSave: the hook gorm runs before every Create and every Save.
BeforeSave(u) ==
    IF u.password = Plain("")
        THEN [err |-> "password cannot be empty", user |-> u]
        ELSE [err |-> "", user |-> [u EXCEPT !.password = Bcrypt(u.password)]]

\* User.ValidatePassword: bcrypt.CompareHashAndPassword(stored, password).
ValidatePassword(u, password) == u.password = Bcrypt(Plain(password))

Min(S) == CHOOSE x \in S : \A y \in S : x <= y

\* gorm adds "deleted_at IS NULL" to every query of a model with DeletedAt.
LiveIDs(table) == {i \in DOMAIN table : ~table[i].deleted}

\* gorm First: the row with the lowest primary key among the matches.
First(S) == IF S = {} THEN {} ELSE {Min(S)}

\* A variant that also finds soft-deleted users.
UserFindByID_IncludesDeleted(us, id) == First({i \in DOMAIN us : i = id})

\* UserRepositoryImpl.FindByID
UserFindByID(us, id) == First({i \in LiveIDs(us) : i = id})

\* UserRepositoryImpl.FindByEmail
UserFindByEmail(us, email) == First({i \in LiveIDs(us) : us[i].email = email})

\* UserRepositoryImpl.FindByEmailAndOrganization
UserFindByEmailAndOrganization(us, email, orgID) ==
    First({i \in LiveIDs(us) :
              us[i].email = email /\ us[i].organization_id = orgID})

\* A variant of the table without the unique index on users.email.
EmailIndexAllows_NoIndex(us, id, email) == TRUE

\* The unique index on users.email (User.Email `gorm:"unique"`): it spans
\* every row of the table, soft-deleted ones too.
EmailIndexAllows(us, id, email) ==
    \A i \in DOMAIN us : i # id => us[i].email # email

\* UserRepositoryImpl.Create: r.DB.Create(user).
UserCreate(us, u) ==
    LET h == BeforeSave(u)
    IN IF h.err # "" THEN [err |-> h.err, users |-> us, id |-> 0]
       ELSE IF ~EmailIndexAllows(us, 0, u.email)
           THEN [err |-> "duplicate key value violates unique constraint",
                 users |-> us, id |-> 0]
       ELSE [err |-> "", users |-> Append(us, h.user), id |-> Len(us) + 1]

\* UserRepositoryImpl.Update: r.DB.Save(user) of a row read by FindByID. The
\* UPDATE carries "deleted_at IS NULL": a row soft-deleted since it was read
\* is not written (Save then tries an insert, which the primary key refuses).
UserUpdate(us, id, u) ==
    LET h == BeforeSave(u)
    IN IF h.err # "" THEN [err |-> h.err, users |-> us]
       ELSE IF us[id].deleted
           THEN [err |-> "duplicate key value violates unique constraint",
                 users |-> us]
       ELSE IF ~EmailIndexAllows(us, id, u.email)
           THEN [err |-> "duplicate key value violates unique constraint",
                 users |-> us]
       ELSE [err |-> "", users |-> [us EXCEPT ![id] = h.user]]

\* UserRepositoryImpl.Delete: a soft delete of the live row with that id.
UserDelete(us, id) ==
    [i \in DOMAIN us |-> IF i = id THEN [us[i] EXCEPT !.deleted = TRUE] ELSE us[i]]

\* The ids of S in ascending order, as a sequence.
RECURSIVE Ascending(_)
Ascending(S) == IF S = {} THEN <<>> ELSE <<Min(S)>> \o Ascending(S \ {Min(S)})

\* Offset(offset).Limit(limit) of a result set.
Page(ids, offset, limit) ==
    LET all == Ascending(ids)
    IN {all[k] : k \in {j \in 1..Len(all) : j > offset /\ j <= offset + limit}}

\* UserRepositoryImpl.ListByOrganization: the count and the page.
UserListByOrganization(us, orgID, offset, limit) ==
    LET match == {i \in LiveIDs(us) : us[i].organization_id = orgID}
    IN [total |-> Cardinality(match), ids |-> Page(match, offset, limit)]

\* A variant that also finds soft-deleted organizations.
OrgFindByID_IncludesDeleted(os, id) == First({i \in DOMAIN os : i = id})

\* OrganizationRepositoryImpl.FindByID
OrgFindByID(os, id) == First({i \in LiveIDs(os) : i = id})

\* OrganizationRepositoryImpl.FindByName
OrgFindByName(os, name) == First({i \in LiveIDs(os) : os[i].name = name})

\* OrganizationRepositoryImpl.Create: r.DB.Create(org).
OrgCreate(os, o) == [orgs |-> Append(os, o), id |-> Len(os) + 1]

\* OrganizationRepositoryImpl.Update: r.DB.Save(org).
OrgUpdate(os, id, o) == [os EXCEPT ![id] = o]

\* tx.Where("organization_id = ?", id).Delete(&models.User{})
DeleteUsersOf(us, id) ==
    [i \in DOMAIN us |->
        IF us[i].organization_id = id THEN [us[i] EXCEPT !.deleted = TRUE] ELSE us[i]]

\* tx.Where("id = ?", id).Delete(&models.Organization{})
DeleteOrganizationRow(os, id) ==
    [i \in DOMAIN os |-> IF i = id THEN [os[i] EXCEPT !.deleted = TRUE] ELSE os[i]]

\* A variant that deletes the users through r.DB, outside the transaction:
\* a rollback or a failed commit leaves them deleted.
OrgDelete_UsersOutsideTx(us, os, id, fault) ==
    IF fault = "users" THEN [err |-> "storage error", users |-> us, orgs |-> os]
    ELSE IF fault \in {"org", "commit"}
        THEN [err |-> "storage error", users |-> DeleteUsersOf(us, id), orgs |-> os]
    ELSE [err |-> "", users |-> DeleteUsersOf(us, id),
          orgs |-> DeleteOrganizationRow(os, id)]

\* OrganizationRepositoryImpl.Delete: in one transaction, soft-delete the
\* organization's users, then the organization, then commit. fault names
\* the statement that fails for a reason of the database's own ("none",
\* "users", "org", "commit"): the transaction is rolled back, or never
\* committed, and the tables are as before.
OrgDelete(us, os, id, fault) ==
    IF fault \in {"users", "org", "commit"}
        THEN [err |-> "storage error", users |-> us, orgs |-> os]
        ELSE [err |-> "", users |-> DeleteUsersOf(us, id),
              orgs |-> DeleteOrganizationRow(os, id)]

\* OrganizationRepositoryImpl.List: the count and the page.
OrgList(os, offset, limit) ==
    [total |-> Cardinality(LiveIDs(os)), ids |-> Page(LiveIDs(os), offset, limit)]

\* --------------------------------------------------------------- services

\* A new row of the users table, before BeforeSave.
NewUser(name, email, password, organizationID, role) ==
    [name |-> name, email |-> email, password |-> Plain(password),
     organization_id |-> organizationID, role |-> role, deleted |-> FALSE]

\* A new row of the organizations table.
NewOrganization(name, displayName, description, website) ==
    [name |-> name, display_name |-> displayName, description |-> description,
     website |-> website, deleted |-> FALSE]

\* UserService.validateRegistration: the error, "" for nil.
validateRegistration(name, email, password) ==
    IF name = "" THEN "name is required"
    ELSE IF email = "" THEN "email is required"
    ELSE IF ~ContainsAt(email) THEN "invalid email format"
    ELSE IF password = "" THEN "password is required"
    ELSE IF PasswordLen(password) < 6 THEN "password must be at least 6 characters"
    ELSE ""

\* OrganizationService.validateAdminUser: the error, "" for nil.
validateAdminUser(name, email, password) ==
    IF name = "" THEN "admin name is required"
    ELSE IF email = "" THEN "admin email is required"
    ELSE IF ~ContainsAt(email) THEN "invalid admin email format"
    ELSE IF password = "" THEN "admin password is required"
    ELSE IF PasswordLen(password) < 6
        THEN "admin password must be at least 6 characters"
    ELSE ""

\* OrganizationService.validateOrganization: the error, "" for nil.
validateOrganization(name, displayName) ==
    IF name = "" THEN "name is required"
    ELSE IF displayName = "" THEN "display name is required"
    ELSE IF name \notin OrgNames THEN "name must not contain spaces or special characters"
    ELSE ""

\* A variant that, when the email is taken in the organization, writes the
\* new registration over the row that holds it.
RegisterUser_ReplacesExisting(us, os, name, email, password, organizationID, role) ==
    LET verr == validateRegistration(name, email, password)
        org == OrgFindByID(os, organizationID)
        existing == UserFindByEmailAndOrganization(us, email, organizationID)
        u == NewUser(name, email, password, organizationID,
                     IF role = "" THEN "user" ELSE role)
        c == UserCreate(us, u)
    IN IF verr # "" THEN [err |-> verr, users |-> us, id |-> 0]
       ELSE IF org = {} THEN [err |-> "organization not found", users |-> us, id |-> 0]
       ELSE IF existing # {}
           THEN LET id == CHOOSE i \in existing : TRUE
                    w == UserUpdate(us, id, u)
                IN [err |-> w.err, users |-> w.users, id |-> id]
       ELSE c

\* UserService.RegisterUser (the organization version).
RegisterUser(us, os, name, email, password, organizationID, role) ==
    LET verr == validateRegistration(name, email, password)
        org == OrgFindByID(os, organizationID)
        existing == UserFindByEmailAndOrganization(us, email, organizationID)
        c == UserCreate(us, NewUser(name, email, password, organizationID,
                                    IF role = "" THEN "user" ELSE role))
    IN IF verr # "" THEN [err |-> verr, users |-> us, id |-> 0]
       ELSE IF org = {} THEN [err |-> "organization not found", users |-> us, id |-> 0]
       ELSE IF existing # {}
           THEN [err |-> "email already registered in this organization",
                 users |-> us, id |-> 0]
       ELSE c

\* A variant that tells an unknown account from a wrong password.
LoginService_TellsNotFound(us, cfg, email, password, organizationID, t) ==
    LET found == IF organizationID > 0
                    THEN UserFindByEmailAndOrganization(us, email, organizationID)
                    ELSE UserFindByEmail(us, email)
    IN IF found = {} THEN [err |-> "user not found", token |-> {}]
       ELSE LET id == CHOOSE i \in found : TRUE
            IN IF ~ValidatePassword(us[id], password)
                   THEN [err |-> "invalid email or password", token |-> {}]
                   ELSE [err |-> "",
                         token |-> {GenerateTokenWithOrganization(
                                       id, us[id].organization_id, us[id].role,
                                       cfg.secret, cfg.expiry, t)}]

\* A variant that does not verify the password.
LoginService_IgnoresPassword(us, cfg, email, password, organizationID, t) ==
    LET found == IF organizationID > 0
                    THEN UserFindByEmailAndOrganization(us, email, organizationID)
                    ELSE UserFindByEmail(us, email)
    IN IF found = {} THEN [err |-> "invalid email or password", token |-> {}]
       ELSE LET id == CHOOSE i \in found : TRUE
            IN [err |-> "",
                token |-> {GenerateTokenWithOrganization(
                              id, us[id].organization_id, us[id].role,
                              cfg.secret, cfg.expiry, t)}]

\* UserService.LoginWithOrganization (organizationID > 0) and UserService.Login
\* (organizationID = 0), called at instant t: the token, or none.
LoginService(us, cfg, email, password, organizationID, t) ==
    LET found == IF organizationID > 0
                    THEN UserFindByEmailAndOrganization(us, email, organizationID)
                    ELSE UserFindByEmail(us, email)
    IN IF found = {} THEN [err |-> "invalid email or password", token |-> {}]
       ELSE LET id == CHOOSE i \in found : TRUE
            IN IF ~ValidatePassword(us[id], password)
                   THEN [err |-> "invalid email or password", token |-> {}]
                   ELSE [err |-> "",
                         token |-> {GenerateTokenWithOrganization(
                                       id, us[id].organization_id, us[id].role,
                                       cfg.secret, cfg.expiry, t)}]

\* UserService.UpdateUser
UpdateUserService(us, id, name, email, password) ==
    IF UserFindByID(us, id) = {} THEN [err |-> "user not found", users |-> us]
    ELSE
      LET u0 == us[id]
          u1 == IF name # "" THEN [u0 EXCEPT !.name = name] ELSE u0
          changesEmail == email # "" /\ email # u0.email
          existing == UserFindByEmailAndOrganization(us, email, u0.organization_id)
          u2 == IF changesEmail THEN [u1 EXCEPT !.email = email] ELSE u1
          u3 == IF password # "" THEN [u2 EXCEPT !.password = Plain(password)] ELSE u2
      IN IF changesEmail /\ existing # {} /\ existing # {id}
             THEN [err |-> "email already in use in this organization", users |-> us]
             ELSE UserUpdate(us, id, u3)

\* UserService.UpdateUserRole
UpdateUserRoleService(us, id, role) ==
    IF UserFindByID(us, id) = {} THEN [err |-> "user not found", users |-> us]
    ELSE IF role # "admin" /\ role # "user"
        THEN [err |-> "invalid role, must be 'admin' or 'user'", users |-> us]
    ELSE UserUpdate(us, id, [us[id] EXCEPT !.role = role])

\* UserService.DeleteUser
DeleteUserService(us, id) ==
    IF UserFindByID(us, id) = {} THEN [err |-> "user not found", users |-> us]
    ELSE [err |-> "", users |-> UserDelete(us, id)]

\* ListUsers, ListOrganizations, ListOrganizationUsers of the services: a
\* page below 1 is 1, a per_page below 1 is 10.
EffectivePage(page) == IF page < 1 THEN 1 ELSE page
EffectivePerPage(perPage) == IF perPage < 1 THEN 10 ELSE perPage
ListOffset(page, perPage) == (EffectivePage(page) - 1) * EffectivePerPage(perPage)

\* UserService.ListOrganizationUsers / OrganizationService.ListOrganizationUsers
ListOrganizationUsersService(us, os, organizationID, page, perPage) ==
    IF OrgFindByID(os, organizationID) = {}
        THEN [err |-> "organization not found", total |-> 0, ids |-> {}]
        ELSE LET l == UserListByOrganization(us, organizationID,
                          ListOffset(page, perPage), EffectivePerPage(perPage))
             IN [err |-> "", total |-> l.total, ids |-> l.ids]

\* OrganizationService.ListOrganizations
ListOrganizationsService(os, page, perPage) ==
    OrgList(os, ListOffset(page, perPage), EffectivePerPage(perPage))

\* What the repositories' Create writes through: r.DB, whatever the context
\* holds. CreateOrganization puts its transaction in the context under "tx",
\* and no repository reads it, so nothing is ever written through that
\* transaction.
CreateWritesThroughTx == FALSE

\* tx.Rollback() in CreateOrganization: undoes what was written through tx.
RolledBack(before, after) == IF CreateWritesThroughTx THEN before ELSE after

\* OrganizationService.CreateOrganization. fault names the storage call that
\* fails for a reason of the database's own ("none", "org", "user",
\* "commit").
CreateOrganizationService(us, os, name, displayName, description, website, adminName, adminEmail, adminPassword, fault) ==
    LET verr == validateOrganization(name, displayName)
        aerr == validateAdminUser(adminName, adminEmail, adminPassword)
        oc == OrgCreate(os, NewOrganization(name, displayName, description, website))
        uc == UserCreate(us, NewUser(adminName, adminEmail, adminPassword, oc.id, "admin"))
        nothing == [users |-> us, orgs |-> os]
    IN IF verr # "" THEN [err |-> verr, users |-> us, orgs |-> os, org |-> {}, admin |-> {}]
       ELSE IF aerr # ""
           THEN [err |-> aerr, users |-> us, orgs |-> os, org |-> {}, admin |-> {}]
       ELSE IF OrgFindByName(os, name) # {}
           THEN [err |-> "organization name already exists",
                 users |-> us, orgs |-> os, org |-> {}, admin |-> {}]
       ELSE IF fault = "org"
           THEN [err |-> "storage error", users |-> us, orgs |-> os,
                 org |-> {}, admin |-> {}]
       ELSE IF uc.err # "" \/ fault = "user"
           THEN LET rb == RolledBack(nothing, [users |-> us, orgs |-> oc.orgs])
                IN [err |-> IF uc.err # "" THEN uc.err ELSE "storage error",
                    users |-> rb.users, orgs |-> rb.orgs, org |-> {}, admin |-> {}]
       ELSE IF fault = "commit"
           THEN LET rb == RolledBack(nothing, [users |-> uc.users, orgs |-> oc.orgs])
                IN [err |-> "storage error", users |-> rb.users, orgs |-> rb.orgs,
                    org |-> {}, admin |-> {}]
       ELSE [err |-> "", users |-> uc.users, orgs |-> oc.orgs,
             org |-> {oc.id}, admin |-> {uc.id}]

\* OrganizationService.UpdateOrganization
UpdateOrganizationService(os, id, displayName, description, website) ==
    IF OrgFindByID(os, id) = {} THEN [err |-> "organization not found", orgs |-> os]
    ELSE LET o1 == IF displayName # "" THEN [os[id] EXCEPT !.display_name = displayName]
                                       ELSE os[id]
             o2 == IF description # "" THEN [o1 EXCEPT !.description = description] ELSE o1
             o3 == IF website # "" THEN [o2 EXCEPT !.website = website] ELSE o2
         IN [err |-> "", orgs |-> OrgUpdate(os, id, o3)]

\* OrganizationService.DeleteOrganization
DeleteOrganizationService(us, os, id, fault) ==
    IF OrgFindByID(os, id) = {}
        THEN [err |-> "organization not found", users |-> us, orgs |-> os]
        ELSE OrgDelete(us, os, id, fault)

\* ------------------------------------------------------------- middleware

\* An Authorization header: absent (""), or a value that strings.Split cuts
\* into `parts` pieces at its spaces, the first being `scheme` and, when
\* there are two, the second being the token.
NoHeader == [present |-> FALSE, parts |-> 0, scheme |-> "", token |-> {}]
Bearer(tok) == [present |-> TRUE, parts |-> 2, scheme |-> "Bearer", token |-> {tok}]
BasicHeader(tok) == [present |-> TRUE, parts |-> 2, scheme |-> "Basic", token |-> {tok}]
BearerOnly == [present |-> TRUE, parts |-> 1, scheme |-> "Bearer", token |-> {}]

\* A variant that takes the claims of a Bearer token without validating it.
JWTMiddleware_SkipsValidation(hdr, secret, t) ==
    IF ~hdr.present THEN [status |-> 401, claims |-> {}]
    ELSE IF hdr.parts # 2 \/ hdr.scheme # "Bearer" THEN [status |-> 401, claims |-> {}]
    ELSE [status |-> 0, claims |-> {DecodeClaims(tok.payload) : tok \in hdr.token}]

\* A variant that also looks the token's user up and refuses the token of a
\* user who is deleted.
JWTMiddleware_RefusesDeletedUser(hdr, secret, t) ==
    IF ~hdr.present THEN [status |-> 401, claims |-> {}]
    ELSE IF hdr.parts # 2 \/ hdr.scheme # "Bearer" THEN [status |-> 401, claims |-> {}]
    ELSE LET v == ValidateToken(CHOOSE k \in hdr.token : TRUE, secret, t)
         IN IF v.err # "" THEN [status |-> 401, claims |-> {}]
            ELSE IF \E c \in v.claims : UserFindByID(users, c.user_id) = {}
                THEN [status |-> 401, claims |-> {}]
            ELSE [status |-> 0, claims |-> v.claims]

\* JWTMiddleware at instant t: the status it answers with (0 when it calls
\* next) and the claims ValidateToken returned.
JWTMiddleware(hdr, secret, t) ==
    IF ~hdr.present THEN [status |-> 401, claims |-> {}]
    ELSE IF hdr.parts # 2 \/ hdr.scheme # "Bearer" THEN [status |-> 401, claims |-> {}]
    ELSE LET v == ValidateToken(CHOOSE k \in hdr.token : TRUE, secret, t)
         IN IF v.err # "" THEN [status |-> 401, claims |-> {}]
            ELSE [status |-> 0, claims |-> v.claims]

\* The values the JWT middleware leaves in the request context for the
\* handlers: the user id, the organization id and the role of the claims.
RequestContext(claims) ==
    [user_id |-> claims.user_id,
     organization_id |-> claims.organization_id,
     role |-> claims.role]

\* The context of a request that no middleware has filled.
EmptyContext == [user_id |-> 0, organization_id |-> 0, role |-> ""]

\* A variant that reads the organization id where the user id is meant.
GetUserID_ReadsOrganization(ctx) == ctx.organization_id

\* middleware.GetUserID, middleware.GetOrganizationID, middleware.GetUserRole
GetUserID(ctx) == ctx.user_id
GetOrganizationID(ctx) == ctx.organization_id
GetUserRole(ctx) == ctx.role

\* The admin middleware: the status it answers with, 0 when it calls next.
AdminMiddleware(ctx) == IF GetUserRole(ctx) = "admin" THEN 0 ELSE 403

\* RegisterRoutes of both handlers: the routes behind jwtMiddleware, and,
\* among them, the routes behind adminMiddleware as well.
PublicRoutes == {"Register", "Login", "CreateOrganization"}
\* A variant that wires DELETE /api/organizations/:id outside the admin group.
AdminRoutes_WithoutDeleteOrganization ==
    {"UpdateOrganization", "ListOrganizationUsers", "UpdateUserRole", "DeleteUserByID"}
AdminRoutes ==
    {"UpdateOrganization", "DeleteOrganization", "ListOrganizationUsers",
     "UpdateUserRole", "DeleteUserByID"}
ProtectedRoutes ==
    {"ListOrganizations", "GetOrganization", "ListUsers", "GetProfile",
     "GetUserByID", "UpdateUser", "DeleteUser"} \cup AdminRoutes

\* A variant whose context carries the user id only.
Middleware_ContextOfUserIdOnly(op, hdr, secret, t) ==
    LET j == JWTMiddleware(hdr, secret, t)
        ctx == IF j.claims = {} THEN EmptyContext
               ELSE [EmptyContext EXCEPT !.user_id = (CHOOSE c \in j.claims : TRUE).user_id]
    IN IF op \in PublicRoutes THEN [status |-> 0, layer |-> "handler", ctx |-> EmptyContext]
       ELSE IF j.status # 0 THEN [status |-> j.status, layer |-> "jwt", ctx |-> EmptyContext]
       ELSE IF op \in AdminRoutes /\ AdminMiddleware(ctx) # 0
           THEN [status |-> AdminMiddleware(ctx), layer |-> "admin", ctx |-> ctx]
       ELSE [status |-> 0, layer |-> "handler", ctx |-> ctx]

\* The middleware chain in front of a route's handler: the status and the
\* layer ("jwt", "admin") that answered, or status 0 and the context the
\* handler runs with.
Middleware(op, hdr, secret, t) ==
    LET j == JWTMiddleware(hdr, secret, t)
        ctx == IF j.claims = {} THEN EmptyContext
               ELSE RequestContext(CHOOSE c \in j.claims : TRUE)
    IN IF op \in PublicRoutes THEN [status |-> 0, layer |-> "handler", ctx |-> EmptyContext]
       ELSE IF j.status # 0 THEN [status |-> j.status, layer |-> "jwt", ctx |-> EmptyContext]
       ELSE IF op \in AdminRoutes /\ AdminMiddleware(ctx) # 0
           THEN [status |-> AdminMiddleware(ctx), layer |-> "admin", ctx |-> ctx]
       ELSE [status |-> 0, layer |-> "handler", ctx |-> ctx]

\* --------------------------------------------------------------- handlers

\* What a handler hands back: the status, the tables as it leaves them and
\* the ids of the user and organization records (and the token) in the body.
Out(status, us, os, retUsers, retOrgs, retToken) ==
    [status |-> status, users |-> us, orgs |-> os,
     retUsers |-> retUsers, retOrgs |-> retOrgs, retToken |-> retToken]

\* utils.ErrorResponse and its kin: a status, no data, the tables as they are.
Fail(status, us, os) == Out(status, us, os, {}, {}, {})

\* No request has been answered yet.
NoResp ==
    [op |-> "", status |-> 0, layer |-> "", header |-> NoHeader, bearer |-> {},
     ctx |-> EmptyContext, id |-> 0, body |-> {}, query |-> {},
     users |-> {}, orgs |-> {}, token |-> {}, changed |-> FALSE]

\* strconv.ParseUint of a path parameter fails on what is not a number; such
\* a parameter is written -1.
ParseUintFails(idParam) == idParam < 0

\* OrganizationHandler.CreateOrganization
CreateOrganizationHandler(us, os, req, fault) ==
    IF ~req.bind THEN Fail(400, us, os)
    ELSE LET r == CreateOrganizationService(us, os, req.name, req.display_name,
                      req.description, req.website,
                      req.admin_name, req.admin_email, req.admin_password, fault)
         IN IF r.err # "" THEN Fail(400, r.users, r.orgs)
            ELSE Out(200, r.users, r.orgs, r.admin, r.org, {})

\* OrganizationHandler.GetOrganization
GetOrganizationHandler(us, os, ctx, idParam) ==
    IF ParseUintFails(idParam) THEN Fail(400, us, os)
    ELSE IF OrgFindByID(os, idParam) = {} THEN Fail(404, us, os)
    ELSE Out(200, us, os, {}, {idParam}, {})

\* OrganizationHandler.UpdateOrganization
UpdateOrganizationHandler(us, os, ctx, idParam, req) ==
    IF ParseUintFails(idParam) THEN Fail(400, us, os)
    ELSE IF ~req.bind THEN Fail(400, us, os)
    ELSE LET r == UpdateOrganizationService(os, idParam, req.display_name,
                                            req.description, req.website)
         IN IF r.err # "" THEN Fail(400, us, os)
            ELSE Out(200, us, r.orgs, {}, {idParam}, {})

\* OrganizationHandler.DeleteOrganization
DeleteOrganizationHandler(us, os, ctx, idParam, fault) ==
    IF ParseUintFails(idParam) THEN Fail(400, us, os)
    ELSE LET r == DeleteOrganizationService(us, os, idParam, fault)
         IN IF r.err # "" THEN Fail(500, r.users, r.orgs)
            ELSE Out(200, r.users, r.orgs, {}, {}, {})

\* Go's integer division and remainder: the quotient is truncated toward
\* zero and the remainder has the sign of the dividend (b is not 0).
Abs(a) == IF a < 0 THEN -a ELSE a
GoDiv(a, b) ==
    IF (a < 0) = (b < 0) THEN Abs(a) \div Abs(b) ELSE -(Abs(a) \div Abs(b))
GoMod(a, b) == a - b * GoDiv(a, b)

\* The page count the list handlers put in the response: total / perPage,
\* one more when total % perPage > 0, with perPage as the query gave it.
TotalPages(total, perPage) ==
    GoDiv(total, perPage) + (IF GoMod(total, perPage) > 0 THEN 1 ELSE 0)

\* OrganizationHandler.ListOrganizations. The page count is total / perPage:
\* with a per_page of 0 the division panics and the Recover middleware
\* answers 500.
ListOrganizationsHandler(us, os, ctx, page, perPage) ==
    LET l == ListOrganizationsService(os, page, perPage)
    IN IF perPage = 0 THEN Fail(500, us, os)
       ELSE Out(200, us, os, {}, l.ids, {})

\* OrganizationHandler.ListOrganizationUsers, with the same division.
ListOrganizationUsersHandler(us, os, ctx, idParam, page, perPage) ==
    IF ParseUintFails(idParam) THEN Fail(400, us, os)
    ELSE LET l == ListOrganizationUsersService(us, os, idParam, page, perPage)
         IN IF l.err # "" THEN Fail(500, us, os)
            ELSE IF perPage = 0 THEN Fail(500, us, os)
            ELSE Out(200, us, os, l.ids, {}, {})

\* UserHandler.Register
RegisterHandler(us, os, req) ==
    IF ~req.bind THEN Fail(400, us, os)
    ELSE LET r == RegisterUser(us, os, req.name, req.email, req.password,
                               req.organization_id, req.role)
         IN IF r.err # "" THEN Fail(400, us, os)
            ELSE Out(200, r.users, os, {r.id}, {}, {})

\* UserHandler.Login, at instant t
LoginHandler(us, os, cfg, req, t) ==
    IF ~req.bind THEN Fail(400, us, os)
    ELSE LET r == LoginService(us, cfg, req.email, req.password, req.organization_id, t)
         IN IF r.err # "" THEN Fail(401, us, os)
            ELSE Out(200, us, os, {}, {}, r.token)

\* UserHandler.GetProfile
GetProfileHandler(us, os, ctx) ==
    IF UserFindByID(us, GetUserID(ctx)) = {} THEN Fail(404, us, os)
    ELSE Out(200, us, os, {GetUserID(ctx)}, {}, {})

\* A variant without the organization check.
GetUserByIDHandler_NoOrganizationCheck(us, os, ctx, idParam) ==
    IF ParseUintFails(idParam) THEN Fail(400, us, os)
    ELSE IF UserFindByID(us, idParam) = {} THEN Fail(404, us, os)
    ELSE Out(200, us, os, {idParam}, {}, {})

\* UserHandler.GetUserByID
GetUserByIDHandler(us, os, ctx, idParam) ==
    IF ParseUintFails(idParam) THEN Fail(400, us, os)
    ELSE IF UserFindByID(us, idParam) = {} THEN Fail(404, us, os)
    ELSE IF GetUserRole(ctx) # "admin"
            /\ us[idParam].organization_id # GetOrganizationID(ctx)
        THEN Fail(403, us, os)
    ELSE Out(200, us, os, {idParam}, {}, {})

\* UserHandler.UpdateUser
UpdateUserHandler(us, os, ctx, req) ==
    IF ~req.bind THEN Fail(400, us, os)
    ELSE LET r == UpdateUserService(us, GetUserID(ctx), req.name, req.email, req.password)
         IN IF r.err # "" THEN Fail(400, us, os)
            ELSE Out(200, r.users, os, {GetUserID(ctx)}, {}, {})

\* UserHandler.UpdateUserRole
UpdateUserRoleHandler(us, os, ctx, idParam, req) ==
    IF ParseUintFails(idParam) THEN Fail(400, us, os)
    ELSE IF ~req.bind THEN Fail(400, us, os)
    ELSE IF UserFindByID(us, idParam) = {} THEN Fail(404, us, os)
    ELSE IF us[idParam].organization_id # GetOrganizationID(ctx) THEN Fail(403, us, os)
    ELSE LET r == UpdateUserRoleService(us, idParam, req.role)
         IN IF r.err # "" THEN Fail(400, us, os)
            ELSE Out(200, r.users, os, {idParam}, {}, {})

\* UserHandler.DeleteUser
DeleteUserHandler(us, os, ctx) ==
    LET r == DeleteUserService(us, GetUserID(ctx))
    IN IF r.err # "" THEN Fail(500, us, os)
       ELSE Out(200, r.users, os, {}, {}, {})

\* UserHandler.DeleteUserByID
DeleteUserByIDHandler(us, os, ctx, idParam) ==
    IF ParseUintFails(idParam) THEN Fail(400, us, os)
    ELSE IF UserFindByID(us, idParam) = {} THEN Fail(404, us, os)
    ELSE IF us[idParam].organization_id # GetOrganizationID(ctx) THEN Fail(403, us, os)
    ELSE LET r == DeleteUserService(us, idParam)
         IN IF r.err # "" THEN Fail(500, us, os)
            ELSE Out(200, r.users, os, {}, {}, {})

\* UserHandler.ListUsers, with the same division.
ListUsersHandler(us, os, ctx, page, perPage) ==
    LET l == ListOrganizationUsersService(us, os, GetOrganizationID(ctx), page, perPage)
    IN IF l.err # "" THEN Fail(500, us, os)
       ELSE IF perPage = 0 THEN Fail(500, us, os)
       ELSE Out(200, us, os, l.ids, {}, {})

\* --------------------------------------------------------------- requests

\* Tokens Login hands out at most.
MaxTokens == 1
\* The server's clock stops after this many token lifetimes.
MaxLifetimes == 1

\* config.Config as the server loads it.
ServerExpiry == 24
ServerConfig == [secret |-> ServerSecret, expiry |-> ServerExpiry]

\* A token nobody issued: admin claims of user 1 in organization 1, signed
\* with a key that is not the server's.
ForgedAdminToken ==
    SignedString("HS256", "attacker",
                 EncodeClaims([user_id |-> 1, organization_id |-> 1, role |-> "admin",
                               exp |-> NumericDate((MaxLifetimes + 1) * ServerExpiry * TicksPerHour),
                               iat |-> 0]))

\* The Authorization headers a request may carry.
Headers ==
    {NoHeader, BearerOnly, BasicHeader(ForgedAdminToken), Bearer(ForgedAdminToken)}
    \cup {Bearer(tok) : tok \in tokens}

\* Path parameters: -1 is not a number, 0 names no row.
UserIdParams == -1..MaxUsers
OrgIdParams == -1..MaxOrgs

\* Query parameters page and per_page, 0 when absent or not a number.
PageParams == {<<0, 0>>, <<1, 1>>, <<2, 1>>, <<-1, -1>>}

\* Request bodies. bind is FALSE for a body c.Bind cannot decode.
RegisterRequests ==
    [bind : {TRUE}, name : Names, email : Emails, password : Passwords,
     organization_id : 0..MaxOrgs, role : {"", "admin"}]
    \cup {[bind |-> b, name |-> n, email |-> e, password |-> pw,
           organization_id |-> 1, role |-> ""] :
             <<b, n, e, pw>> \in {<<FALSE, "", "", "">>, <<TRUE, "", "a@x.com", "secret1">>,
                                  <<TRUE, "Ann", "ann", "secret1">>,
                                  <<TRUE, "Ann", "a@x.com", "abc">>}}

LoginRequests ==
    [bind : {TRUE}, email : Emails, password : Passwords \cup {"wrong"},
     organization_id : 0..MaxOrgs]
    \cup {[bind |-> FALSE, email |-> "", password |-> "", organization_id |-> 0]}

UpdateUserRequests ==
    {[bind |-> b, name |-> n, email |-> e, password |-> pw] :
        <<b, n, e, pw>> \in {<<FALSE, "", "", "">>, <<TRUE, "Ann", "", "">>,
                             <<TRUE, "", "a@x.com", "">>, <<TRUE, "", "", "secret1">>}}

UpdateUserRoleRequests ==
    [bind : {TRUE}, role : {"admin", "user", "owner"}] \cup {[bind |-> FALSE, role |-> ""]}

CreateOrganizationRequests ==
    [bind : {TRUE}, name : OrgNames, display_name : DisplayNames, description : {""},
     website : {""}, admin_name : Names, admin_email : Emails, admin_password : Passwords]
    \cup {[bind |-> b, name |-> n, display_name |-> d, description |-> "", website |-> "",
           admin_name |-> an, admin_email |-> "a@x.com", admin_password |-> pw] :
             <<b, n, d, an, pw>> \in {<<FALSE, "", "", "", "">>,
                                      <<TRUE, "acme", "", "Ann", "secret1">>,
                                      <<TRUE, "ac me", "Acme Corp", "Ann", "secret1">>,
                                      <<TRUE, "acme", "Acme Corp", "Ann", "abc">>}}

UpdateOrganizationRequests ==
    {[bind |-> b, display_name |-> d, description |-> "", website |-> w] :
        <<b, d, w>> \in {<<FALSE, "", "">>, <<TRUE, "Acme Corp", "">>,
                         <<TRUE, "", "">>}}

\* The storage calls of CreateOrganization that may fail for a reason of the
\* database's own.
Faults == {"none", "org", "user", "commit"}

\* The statements of OrganizationRepositoryImpl.Delete that may fail for a
\* reason of the database's own.
DeleteFaults == {"none", "users", "org", "commit"}

\* The previous response has gone out.
Idle == resp = NoResp

\* One request: the middleware chain m of route op has run on header hdr,
\* and, if it called next, the handler has produced out from the path
\* parameter idParam, the JSON body in `body` and the query parameters in
\* `query` (each empty when the route reads none).
ServeRequest(op, hdr, m, idParam, body, query, out) ==
    LET r == IF m.status # 0 THEN Fail(m.status, users, orgs) ELSE out
    IN /\ Len(r.users) <= MaxUsers
       /\ Len(r.orgs) <= MaxOrgs
       /\ Cardinality(tokens \cup r.retToken) <= MaxTokens
       /\ users' = r.users
       /\ orgs' = r.orgs
       /\ tokens' = tokens \cup r.retToken
       /\ resp' = [op |-> op, status |-> r.status, layer |-> m.layer,
                   header |-> hdr, bearer |-> hdr.token, ctx |-> m.ctx,
                   id |-> IF m.status # 0 THEN 0 ELSE idParam,
                   body |-> body, query |-> query,
                   users |-> r.retUsers, orgs |-> r.retOrgs, token |-> r.retToken,
                   changed |-> (<<r.users, r.orgs>> # <<users, orgs>>)]
       /\ UNCHANGED <<config, now, tsIn, tsTok, tsRes, procs>>

\* A request with a JSON body and no query parameters.
ServeBody(op, hdr, m, idParam, body, out) ==
    ServeRequest(op, hdr, m, idParam, body, {}, out)

\* A list request: page and per_page as strconv.Atoi leaves them.
ServeQuery(op, hdr, m, idParam, pp, out) ==
    ServeRequest(op, hdr, m, idParam, {}, {[page |-> pp[1], per_page |-> pp[2]]}, out)

\* A request whose body the response record does not keep.
Serve(op, hdr, m, idParam, out) == ServeBody(op, hdr, m, idParam, {}, out)

\* A request that a middleware answered: no handler runs.
Rejected(op, hdr, m) == Serve(op, hdr, m, 0, Fail(m.status, users, orgs))

\* The middleware chain of a route on a header, now.
Chain(op, hdr) == Middleware(op, hdr, config.secret, now)

\* ---------------------------------------------------------------- actions

\* POST /api/organizations
CreateOrganization ==
    /\ Idle
    /\ \E req \in CreateOrganizationRequests :
        \E fault \in IF req.bind /\ req.name \in OrgNames /\ req.admin_name \in Names
                         /\ req.display_name \in DisplayNames
                         /\ req.admin_password \in Passwords
                      THEN Faults ELSE {"none"} :
            Serve("CreateOrganization", NoHeader, Chain("CreateOrganization", NoHeader), 0,
                  CreateOrganizationHandler(users, orgs, req, fault))

\* GET /api/organizations/:id
GetOrganization ==
    /\ Idle
    /\ \E hdr \in Headers :
        LET m == Chain("GetOrganization", hdr)
        IN IF m.status # 0 THEN Rejected("GetOrganization", hdr, m)
           ELSE \E idParam \in OrgIdParams :
                Serve("GetOrganization", hdr, m, idParam,
                      GetOrganizationHandler(users, orgs, m.ctx, idParam))

\* PUT /api/organizations/:id
UpdateOrganization ==
    /\ Idle
    /\ \E hdr \in Headers :
        LET m == Chain("UpdateOrganization", hdr)
        IN IF m.status # 0 THEN Rejected("UpdateOrganization", hdr, m)
           ELSE \E idParam \in OrgIdParams, req \in UpdateOrganizationRequests :
                Serve("UpdateOrganization", hdr, m, idParam,
                      UpdateOrganizationHandler(users, orgs, m.ctx, idParam, req))

\* DELETE /api/organizations/:id
DeleteOrganization ==
    /\ Idle
    /\ \E hdr \in Headers :
        LET m == Chain("DeleteOrganization", hdr)
        IN IF m.status # 0 THEN Rejected("DeleteOrganization", hdr, m)
           ELSE \E idParam \in OrgIdParams :
                \E fault \in IF idParam \in LiveIDs(orgs) THEN DeleteFaults ELSE {"none"} :
                    Serve("DeleteOrganization", hdr, m, idParam,
                          DeleteOrganizationHandler(users, orgs, m.ctx, idParam, fault))

\* GET /api/organizations
ListOrganizations ==
    /\ Idle
    /\ \E hdr \in Headers :
        LET m == Chain("ListOrganizations", hdr)
        IN IF m.status # 0 THEN Rejected("ListOrganizations", hdr, m)
           ELSE \E pp \in PageParams :
                ServeQuery("ListOrganizations", hdr, m, 0, pp,
                      ListOrganizationsHandler(users, orgs, m.ctx, pp[1], pp[2]))

\* GET /api/organizations/:id/users
ListOrganizationUsers ==
    /\ Idle
    /\ \E hdr \in Headers :
        LET m == Chain("ListOrganizationUsers", hdr)
        IN IF m.status # 0 THEN Rejected("ListOrganizationUsers", hdr, m)
           ELSE \E idParam \in OrgIdParams, pp \in PageParams :
                ServeQuery("ListOrganizationUsers", hdr, m, idParam, pp,
                      ListOrganizationUsersHandler(users, orgs, m.ctx, idParam, pp[1], pp[2]))

\* POST /api/register
Register ==
    /\ Idle
    /\ \E req \in RegisterRequests :
        ServeBody("Register", NoHeader, Chain("Register", NoHeader), 0, {req},
                  RegisterHandler(users, orgs, req))

\* POST /api/login
Login ==
    /\ Idle
    /\ \E req \in LoginRequests :
        ServeBody("Login", NoHeader, Chain("Login", NoHeader), 0, {req},
                  LoginHandler(users, orgs, config, req, now))

\* GET /api/users/profile
GetProfile ==
    /\ Idle
    /\ \E hdr \in Headers :
        LET m == Chain("GetProfile", hdr)
        IN IF m.status # 0 THEN Rejected("GetProfile", hdr, m)
           ELSE Serve("GetProfile", hdr, m, 0,
                      GetProfileHandler(users, orgs, m.ctx))

\* GET /api/users/:id
GetUserByID ==
    /\ Idle
    /\ \E hdr \in Headers :
        LET m == Chain("GetUserByID", hdr)
        IN IF m.status # 0 THEN Rejected("GetUserByID", hdr, m)
           ELSE \E idParam \in UserIdParams :
                Serve("GetUserByID", hdr, m, idParam,
                      GetUserByIDHandler(users, orgs, m.ctx, idParam))

\* PUT /api/users
UpdateUser ==
    /\ Idle
    /\ \E hdr \in Headers :
        LET m == Chain("UpdateUser", hdr)
        IN IF m.status # 0 THEN Rejected("UpdateUser", hdr, m)
           ELSE \E req \in UpdateUserRequests :
                Serve("UpdateUser", hdr, m, 0,
                      UpdateUserHandler(users, orgs, m.ctx, req))

\* PUT /api/users/:id/role
UpdateUserRole ==
    /\ Idle
    /\ \E hdr \in Headers :
        LET m == Chain("UpdateUserRole", hdr)
        IN IF m.status # 0 THEN Rejected("UpdateUserRole", hdr, m)
           ELSE \E idParam \in UserIdParams, req \in UpdateUserRoleRequests :
                Serve("UpdateUserRole", hdr, m, idParam,
                      UpdateUserRoleHandler(users, orgs, m.ctx, idParam, req))

\* DELETE /api/users
DeleteUser ==
    /\ Idle
    /\ \E hdr \in Headers :
        LET m == Chain("DeleteUser", hdr)
        IN IF m.status # 0 THEN Rejected("DeleteUser", hdr, m)
           ELSE Serve("DeleteUser", hdr, m, 0,
                      DeleteUserHandler(users, orgs, m.ctx))

\* DELETE /api/users/:id
DeleteUserByID ==
    /\ Idle
    /\ \E hdr \in Headers :
        LET m == Chain("DeleteUserByID", hdr)
        IN IF m.status # 0 THEN Rejected("DeleteUserByID", hdr, m)
           ELSE \E idParam \in UserIdParams :
                Serve("DeleteUserByID", hdr, m, idParam,
                      DeleteUserByIDHandler(users, orgs, m.ctx, idParam))

\* GET /api/users
ListUsers ==
    /\ Idle
    /\ \E hdr \in Headers :
        LET m == Chain("ListUsers", hdr)
        IN IF m.status # 0 THEN Rejected("ListUsers", hdr, m)
           ELSE \E pp \in PageParams :
                ServeQuery("ListUsers", hdr, m, 0, pp,
                      ListUsersHandler(users, orgs, m.ctx, pp[1], pp[2]))

\* c.JSON: the response goes out to the client.
Deliver ==
    /\ resp # NoResp
    /\ resp' = NoResp
    /\ UNCHANGED <<users, orgs, config, now, tokens, tsIn, tsTok, tsRes, procs>>

\* A token lifetime passes on the server's clock, between two requests. The
\* server reads the clock only to issue and to validate tokens; the clock is
\* moved once a token is out.
AdvanceTime ==
    /\ Idle
    /\ tokens # {}
    /\ now + config.expiry * TicksPerHour <= MaxLifetimes * config.expiry * TicksPerHour
    /\ now' = now + config.expiry * TicksPerHour
    /\ UNCHANGED <<users, orgs, config, tokens, resp, tsIn, tsTok, tsRes, procs>>

\* The server after construction: empty tables, the configuration loaded.
Init ==
    /\ users = <<>>
    /\ orgs = <<>>
    /\ config = ServerConfig
    /\ now = 0
    /\ tokens = {}
    /\ resp = NoResp
    /\ tsIn = NoIssue
    /\ tsTok = {}
    /\ tsRes = NoRes
    /\ procs = NoProcs

Next ==
    \/ CreateOrganization
    \/ GetOrganization
    \/ UpdateOrganization
    \/ DeleteOrganization
    \/ ListOrganizations
    \/ ListOrganizationUsers
    \/ Register
    \/ Login
    \/ GetProfile
    \/ GetUserByID
    \/ UpdateUser
    \/ UpdateUserRole
    \/ DeleteUser
    \/ DeleteUserByID
    \/ ListUsers
    \/ Deliver
    \/ AdvanceTime

Spec == Init /\ [][Next]_vars

\* ------------------------------------------------- the token service alone

\* Tokens an attacker can build from a token tok without the key it was
\* signed with: the payload changed under the old signature, the payload
\* changed and signed with another key, the header naming no algorithm or an
\* asymmetric one, another HMAC algorithm named over the old signature, and a
\* string that is not three dot-separated parts.
Promoted(payload) == [k \in DOMAIN payload \cup {"role"} |->
                         IF k = "role" THEN "admin" ELSE payload[k]]
Forgeries(tok) ==
    {[tok EXCEPT !.payload = Promoted(tok.payload)],
     SignedString("HS256", "attacker", Promoted(tok.payload)),
     SignedString("none", "", Promoted(tok.payload)),
     SignedString("RS256", tok.sig.key, Promoted(tok.payload)),
     [tok EXCEPT !.header = [alg |-> "HS384"]],
     SignedString("HS384", tok.sig.key, tok.payload),
     [tok EXCEPT !.parts = 2]}

\* The arguments of one GenerateTokenWithOrganization call.
TSInit ==
    /\ users = <<>>
    /\ orgs = <<>>
    /\ config = ServerConfig
    /\ now = 0
    /\ tokens = {}
    /\ resp = NoResp
    /\ tsIn \in [user_id : 0..MaxID, organization_id : 0..MaxID, role : Roles,
                 secret : Secrets, expiry : 0..MaxExpiry, at : {0}]
    /\ tsTok = {}
    /\ tsRes = NoRes
    /\ procs = NoProcs

\* GenerateTokenWithOrganization is called, once, now: within the first
\* ClockWindow ticks.
TSIssue ==
    /\ tsTok = {}
    /\ now <= ClockWindow
    /\ tsTok' = {GenerateTokenWithOrganization(tsIn.user_id, tsIn.organization_id,
                     tsIn.role, tsIn.secret, tsIn.expiry, now)}
    /\ tsIn' = [tsIn EXCEPT !.at = now]
    /\ tsRes' = NoRes
    /\ UNCHANGED <<users, orgs, config, now, tokens, resp, procs>>

\* ValidateToken is called, now, on the issued token or on a forgery of it,
\* with some secret.
TSValidate ==
    /\ tsRes = NoRes
    /\ \E issued \in tsTok, secret \in Secrets :
        \E tok \in {issued} \cup Forgeries(issued) :
            LET v == ValidateToken(tok, secret, now)
            IN /\ tsRes' = [token |-> {tok}, secret |-> secret, at |-> now,
                            err |-> v.err, claims |-> v.claims]
               /\ UNCHANGED <<users, orgs, config, now, tokens, resp, tsIn, tsTok, procs>>

\* ValidateToken has returned; its result is looked at before the clock is.
TSReturn ==
    /\ tsRes # NoRes
    /\ tsRes' = NoRes
    /\ UNCHANGED <<users, orgs, config, now, tokens, resp, tsIn, tsTok, procs>>

TSNext ==
    \/ TSIssue
    \/ TSValidate
    \/ TSReturn
    \/ TSAdvanceTime

SpecToken == TSInit /\ [][TSNext]_vars

\* The instant of a token's exp claim, in ticks.
ExpiryInstant(tok) == tok.payload["exp"] * TicksPerSecond

\* C7: validating an issued token with the secret it was issued with, at any
\* time before its expiry, returns no error and claims whose user_id,
\* organization_id and role are the values passed to
\* GenerateTokenWithOrganization.
C7_TokenRoundTrip ==
    \A tok \in tsTok :
        (tsRes.token = {tok} /\ tsRes.secret = tsIn.secret /\ tsRes.at < ExpiryInstant(tok))
        => /\ tsRes.err = ""
           /\ tsRes.claims # {}
           /\ \A c \in tsRes.claims :
                 /\ c.user_id = tsIn.user_id
                 /\ c.organization_id = tsIn.organization_id
                 /\ c.role = tsIn.role

\* A token of organization 1 and role admin issued at a later tick has been
\* validated, with its secret, shortly before it expires.
C7_Witness ==
    /\ tsIn.organization_id = 1 /\ tsIn.role = "admin" /\ tsIn.at > 0
    /\ tsRes.token = tsTok /\ tsTok # {}
    /\ tsRes.secret = tsIn.secret
    /\ tsRes.at > tsIn.at
    /\ tsRes.err = ""
    /\ \E c \in tsRes.claims : c.organization_id = 1 /\ c.role = "admin"

\* C8 as stated: the exp claim of a token issued at t with expiry E hours is
\* the instant t + E hours exactly, ValidateToken fails for it at every time
\* at or after that instant, and no token is accepted at or past its exp claim.
C8_ExpiryIsIssuePlusHours ==
    /\ \A tok \in tsTok :
          /\ ExpiryInstant(tok) = tsIn.at + tsIn.expiry * TicksPerHour
          /\ (tsRes.token = {tok} /\ tsRes.at >= tsIn.at + tsIn.expiry * TicksPerHour)
             => (tsRes.err # "" /\ tsRes.claims = {})
    /\ \A tok \in tsRes.token :
          tsRes.at >= ExpiryInstant(tok) => (tsRes.err # "" /\ tsRes.claims = {})

\* C8, amended: the exp claim of a token issued at t with expiry E hours is
\* t + E hours cut down to a whole second (it lies less than a second before
\* t + E hours, or on it); ValidateToken fails for the token at every time at
\* or after t + E hours; and no token is accepted at or past its exp claim.
C8_ExpiryIsTruncatedToSeconds ==
    /\ \A tok \in tsTok :
          /\ ExpiryInstant(tok) <= tsIn.at + tsIn.expiry * TicksPerHour
          /\ tsIn.at + tsIn.expiry * TicksPerHour < ExpiryInstant(tok) + TicksPerSecond
          /\ (tsRes.token = {tok} /\ tsRes.at >= tsIn.at + tsIn.expiry * TicksPerHour)
             => (tsRes.err # "" /\ tsRes.claims = {})
    /\ \A tok \in tsRes.token :
          tsRes.at >= ExpiryInstant(tok) => (tsRes.err # "" /\ tsRes.claims = {})

\* A token issued off a second's boundary has been refused as expired, with
\* its own secret, at the instant of its exp claim: before t + E hours.
C8_Witness ==
    /\ tsTok # {} /\ tsRes.token = tsTok /\ tsRes.secret = tsIn.secret
    /\ tsIn.expiry > 0
    /\ \A tok \in tsTok :
          /\ tsRes.at = ExpiryInstant(tok)
          /\ tsRes.at < tsIn.at + tsIn.expiry * TicksPerHour
    /\ tsRes.err = "token is expired"
    /\ tsRes.claims = {}

\* C9: ValidateToken returns an error and no claims for every token whose
\* signature was not made with the validating secret and for every token whose
\* header names an algorithm that is not HMAC, whatever the payload says.
C9_ForgedTokenRejected ==
    \A tok \in tsRes.token :
        (tok.sig.key # tsRes.secret \/ tok.header.alg \notin HMACAlgs)
        => (tsRes.err # "" /\ tsRes.claims = {})

\* An unexpired token whose header names RS256, its payload promoted to admin
\* and its signature made with the validating secret itself, has been refused.
C9_Witness ==
    /\ \E tok \in tsRes.token :
          /\ tok.header.alg = "RS256"
          /\ tok.sig.key = tsRes.secret
          /\ tok.payload["role"] = "admin"
          /\ tsRes.at < ExpiryInstant(tok)
    /\ tsRes.err = "unexpected signing method"
    /\ tsRes.claims = {}

\* ------------------------------------------- requests served concurrently

\* The service calls of concurrent requests, one storage call per step. Each
\* goroutine serves one request; a storage call is atomic, the calls of one
\* service method are not.

\* The tables when the concurrent requests arrive: one organization with its
\* admin, or two organizations each with its admin.
OneOrganization ==
    CreateOrganizationService(<<>>, <<>>, "acme", "Acme Corp", "", "",
                              "Ann", "a@x.com", "secret1", "none")
TwoOrganizations ==
    CreateOrganizationService(OneOrganization.users, OneOrganization.orgs,
                              "beta", "Acme Corp", "", "",
                              "Ann", "b@x.com", "secret1", "none")

\* The arguments of the concurrent RegisterUser and UpdateUser calls.
ConcurrentRegisterRequests ==
    [name : Names, email : Emails, password : Passwords,
     organization_id : 1..MaxOrgs, role : {""}]
ConcurrentUpdateRequests ==
    [id : 1..MaxUsers, name : {""}, email : Emails, password : {""}]
    \cup [id : 1..MaxUsers, name : Names, email : {""}, password : {""}]

Step(p, next) ==
    /\ procs' = [procs EXCEPT ![p] = next]
    /\ UNCHANGED <<orgs, config, now, tokens, resp, tsIn, tsTok, tsRes>>

Returns(p, err) == [procs[p] EXCEPT !.pc = "done", !.err = err]

\* RegisterUser up to its first storage call: validateRegistration, then
\* OrganizationRepo.FindByID.
RegisterFindOrganization(p) ==
    /\ procs[p].pc = "idle"
    /\ \E req \in ConcurrentRegisterRequests :
        LET me == [procs[p] EXCEPT !.op = "RegisterUser", !.name = req.name,
                                   !.email = req.email, !.password = req.password,
                                   !.organization_id = req.organization_id,
                                   !.role = req.role]
            verr == validateRegistration(req.name, req.email, req.password)
        IN /\ Step(p, IF verr # "" THEN [me EXCEPT !.pc = "done", !.err = verr]
                      ELSE IF OrgFindByID(orgs, req.organization_id) = {}
                          THEN [me EXCEPT !.pc = "done", !.err = "organization not found"]
                      ELSE [me EXCEPT !.pc = "register_find_email"])
           /\ users' = users

\* RegisterUser: UserRepo.FindByEmailAndOrganization.
RegisterFindEmail(p) ==
    /\ procs[p].pc = "register_find_email"
    /\ Step(p, IF UserFindByEmailAndOrganization(users, procs[p].email,
                                                 procs[p].organization_id) # {}
                   THEN Returns(p, "email already registered in this organization")
                   ELSE [procs[p] EXCEPT !.pc = "register_create"])
    /\ users' = users

\* RegisterUser: UserRepo.Create, and the return.
RegisterCreate(p) ==
    /\ procs[p].pc = "register_create"
    /\ LET me == procs[p]
           c == UserCreate(users, NewUser(me.name, me.email, me.password,
                                          me.organization_id,
                                          IF me.role = "" THEN "user" ELSE me.role))
       IN /\ users' = c.users
          /\ Step(p, [me EXCEPT !.pc = "done", !.err = c.err, !.id = c.id])

\* UserService.UpdateUser up to its first storage call: UserRepo.FindByID,
\* which loads the row the method then edits.
UpdateFindByID(p) ==
    /\ procs[p].pc = "idle"
    /\ \E req \in ConcurrentUpdateRequests :
        LET me == [procs[p] EXCEPT !.op = "UpdateUser", !.id = req.id,
                                   !.name = req.name, !.email = req.email,
                                   !.password = req.password]
        IN /\ Step(p, IF UserFindByID(users, req.id) = {}
                          THEN [me EXCEPT !.pc = "done", !.err = "user not found"]
                      ELSE IF req.email # "" /\ req.email # users[req.id].email
                          THEN [me EXCEPT !.pc = "update_find_email",
                                          !.snap = {users[req.id]}]
                      ELSE [me EXCEPT !.pc = "update_save", !.snap = {users[req.id]}])
           /\ users' = users

\* UpdateUser, when the email changes: UserRepo.FindByEmailAndOrganization.
UpdateFindEmail(p) ==
    /\ procs[p].pc = "update_find_email"
    /\ LET me == procs[p]
           u0 == CHOOSE u \in me.snap : TRUE
           existing == UserFindByEmailAndOrganization(users, me.email, u0.organization_id)
       IN Step(p, IF existing # {} /\ existing # {me.id}
                     THEN Returns(p, "email already in use in this organization")
                     ELSE [me EXCEPT !.pc = "update_save"])
    /\ users' = users

\* UpdateUser: UserRepo.Update saves the loaded row with the edits, and the
\* method returns.
UpdateSave(p) ==
    /\ procs[p].pc = "update_save"
    /\ LET me == procs[p]
           u0 == CHOOSE u \in me.snap : TRUE
           u1 == IF me.name # "" THEN [u0 EXCEPT !.name = me.name] ELSE u0
           u2 == IF me.email # "" /\ me.email # u0.email
                    THEN [u1 EXCEPT !.email = me.email] ELSE u1
           u3 == IF me.password # "" THEN [u2 EXCEPT !.password = Plain(me.password)] ELSE u2
           w == UserUpdate(users, me.id, u3)
       IN /\ users' = w.users
          /\ Step(p, [me EXCEPT !.pc = "done", !.err = w.err])

\* The arguments of the concurrent CreateOrganization calls (display name
\* "Acme Corp", admin name "Ann", admin password "secret1") and the ids of
\* the concurrent DeleteOrganization calls.
ConcurrentCreateRequests == [name : OrgNames, admin_email : Emails]
ConcurrentDeleteRequests == 1..MaxOrgs

\* A step of a method that leaves the users table alone and writes orgs.
StepOrgs(p, next, os) ==
    /\ procs' = [procs EXCEPT ![p] = next]
    /\ orgs' = os
    /\ UNCHANGED <<users, config, now, tokens, resp, tsIn, tsTok, tsRes>>

\* OrganizationService.CreateOrganization up to its first storage call: the
\* two validations, then OrganizationRepo.FindByName.
CreateFindByName(p) ==
    /\ procs[p].pc = "idle"
    /\ \E req \in ConcurrentCreateRequests :
        LET me == [procs[p] EXCEPT !.op = "CreateOrganization", !.org_name = req.name,
                                   !.name = "Ann", !.email = req.admin_email,
                                   !.password = "secret1"]
            verr == validateOrganization(req.name, "Acme Corp")
            aerr == validateAdminUser("Ann", req.admin_email, "secret1")
        IN /\ Step(p, IF verr # "" THEN [me EXCEPT !.pc = "done", !.err = verr]
                      ELSE IF aerr # "" THEN [me EXCEPT !.pc = "done", !.err = aerr]
                      ELSE IF OrgFindByName(orgs, req.name) # {}
                          THEN [me EXCEPT !.pc = "done",
                                          !.err = "organization name already exists"]
                      ELSE [me EXCEPT !.pc = "create_org"])
           /\ users' = users

\* CreateOrganization: OrganizationRepo.Create, which writes through r.DB.
CreateOrganizationRow(p) ==
    /\ procs[p].pc = "create_org"
    /\ LET me == procs[p]
           oc == OrgCreate(orgs, NewOrganization(me.org_name, "Acme Corp", "", ""))
       IN StepOrgs(p, [me EXCEPT !.pc = "create_admin", !.organization_id = oc.id],
                   oc.orgs)

\* CreateOrganization: UserRepo.Create of the admin, then tx.Rollback() or
\* tx.Commit() of a transaction nothing was written through (the organization
\* row stays when the admin is refused), and the return.
CreateAdmin(p) ==
    /\ procs[p].pc = "create_admin"
    /\ LET me == procs[p]
           c == UserCreate(users, NewUser(me.name, me.email, me.password,
                                          me.organization_id, "admin"))
       IN /\ users' = c.users
          /\ Step(p, [me EXCEPT !.pc = "done", !.err = c.err, !.id = c.id])

\* OrganizationService.DeleteOrganization up to its first storage call:
\* OrganizationRepo.FindByID.
DeleteFindOrganization(p) ==
    /\ procs[p].pc = "idle"
    /\ \E id \in ConcurrentDeleteRequests :
        LET me == [procs[p] EXCEPT !.op = "DeleteOrganization", !.organization_id = id]
        IN /\ Step(p, IF OrgFindByID(orgs, id) = {}
                          THEN [me EXCEPT !.pc = "done", !.err = "organization not found"]
                          ELSE [me EXCEPT !.pc = "delete_users"])
           /\ users' = users

\* OrganizationRepositoryImpl.Delete: inside the transaction, the statement
\* that soft-deletes the organization's users. It marks the rows that are
\* there when it runs; other requests see the marks once the transaction
\* commits.
DeleteUsersStatement(p) ==
    /\ procs[p].pc = "delete_users"
    /\ LET me == procs[p]
           marked == {i \in LiveIDs(users) : users[i].organization_id = me.organization_id}
       IN Step(p, [me EXCEPT !.pc = "delete_commit", !.deleting = marked])
    /\ users' = users

\* OrganizationRepositoryImpl.Delete: the statement that soft-deletes the
\* organization, the commit, and the return.
DeleteCommit(p) ==
    /\ procs[p].pc = "delete_commit"
    /\ LET me == procs[p]
       IN /\ users' = [i \in DOMAIN users |->
                          IF i \in me.deleting THEN [users[i] EXCEPT !.deleted = TRUE]
                                                ELSE users[i]]
          /\ orgs' = DeleteOrganizationRow(orgs, me.organization_id)
          /\ procs' = [procs EXCEPT ![p] = [me EXCEPT !.pc = "done"]]
          /\ UNCHANGED <<config, now, tokens, resp, tsIn, tsTok, tsRes>>

\* The tables when the concurrent requests arrive: empty, or with one or two
\* organizations.
ConcurrentInit ==
    /\ \E t \in {[users |-> <<>>, orgs |-> <<>>], OneOrganization, TwoOrganizations} :
          users = t.users /\ orgs = t.orgs
    /\ config = ServerConfig
    /\ now = 0
    /\ tokens = {}
    /\ resp = NoResp
    /\ tsIn = NoIssue
    /\ tsTok = {}
    /\ tsRes = NoRes
    /\ procs = NoProcs

ConcurrentNext ==
    \E p \in 1..NumProcs :
        \/ RegisterFindOrganization(p)
        \/ RegisterFindEmail(p)
        \/ RegisterCreate(p)
        \/ UpdateFindByID(p)
        \/ UpdateFindEmail(p)
        \/ UpdateSave(p)
        \/ CreateFindByName(p)
        \/ CreateOrganizationRow(p)
        \/ CreateAdmin(p)
        \/ DeleteFindOrganization(p)
        \/ DeleteUsersStatement(p)
        \/ DeleteCommit(p)

SpecConcurrent == ConcurrentInit /\ [][ConcurrentNext]_vars

\* ------------------------------------------------------ the server's claims

\* The claims of a token, as the middleware reads them.
Caller(tok) == DecodeClaims(tok.payload)

\* The latest response answers a request that bore token tok, a token Login
\* issued, and that the JWT middleware let through.
AnsweredFor(tok) == tok \in resp.bearer /\ tok \in tokens /\ resp.layer # "jwt"

\* The latest request named a stored user by id.
TargetsUser == resp.layer = "handler" /\ resp.id \in 1..Len(users)

ByIdUserOps == {"GetUserByID", "UpdateUserRole", "DeleteUserByID"}
ByIdOrganizationOps == {"UpdateOrganization", "DeleteOrganization", "ListOrganizationUsers"}
AdminOnlyOps == ByIdOrganizationOps \cup {"UpdateUserRole", "DeleteUserByID"}

\* C1: a by-id user operation (GetUserByID, UpdateUserRole, DeleteUserByID)
\* asked with an admin token of organization A on a user whose stored
\* organization is not A is denied (forbidden or not found), returns no user
\* data and changes nothing.
C1_AdminCrossOrgDenied ==
    \A tok \in tokens :
        (/\ AnsweredFor(tok)
         /\ Caller(tok).role = "admin"
         /\ resp.op \in ByIdUserOps
         /\ TargetsUser
         /\ users[resp.id].organization_id # Caller(tok).organization_id)
        => (resp.status \in {403, 404} /\ resp.users = {} /\ ~resp.changed)

\* C2: UpdateOrganization, DeleteOrganization and ListOrganizationUsers
\* succeed only when the caller's token carries the organization id the
\* request names.
C2_OrganizationOpsScoped ==
    \A tok \in tokens :
        (/\ AnsweredFor(tok)
         /\ resp.op \in ByIdOrganizationOps
         /\ resp.status = 200)
        => Caller(tok).organization_id = resp.id

\* C3: a request bearing a non-admin token of a user of organization A never
\* returns data of a user of another organization, and a by-id user operation
\* it asks on a user of another organization is answered forbidden or not
\* found and changes nothing.
C3_NonAdminCrossOrgDenied ==
    \A tok \in tokens :
        (AnsweredFor(tok) /\ Caller(tok).role # "admin")
        => /\ \A i \in resp.users : users[i].organization_id = Caller(tok).organization_id
           /\ (/\ resp.op \in ByIdUserOps
               /\ \/ resp.layer = "admin"
                  \/ /\ TargetsUser
                     /\ users[resp.id].organization_id # Caller(tok).organization_id)
              => (resp.status \in {403, 404} /\ resp.users = {} /\ ~resp.changed)

\* A non-admin token of one organization has asked GetUserByID for a stored,
\* non-deleted user of another organization and was answered forbidden.
C3_Witness ==
    \E tok \in tokens :
        /\ AnsweredFor(tok)
        /\ Caller(tok).role # "admin"
        /\ resp.op = "GetUserByID"
        /\ TargetsUser
        /\ ~users[resp.id].deleted
        /\ users[resp.id].organization_id # Caller(tok).organization_id
        /\ resp.status = 403

\* C4: CreateOrganization is all-or-nothing: when it answers with an error the
\* tables are as they were, and when it succeeds they hold the new
\* organization and its admin user.
C4_CreateOrganizationAllOrNothing ==
    resp.op = "CreateOrganization"
    => /\ resp.status # 200 => ~resp.changed
       /\ resp.status = 200
          => \E o \in resp.orgs, u \in resp.users :
                /\ o \in LiveIDs(orgs)
                /\ u \in LiveIDs(users)
                /\ users[u].organization_id = o
                /\ users[u].role = "admin"

\* C5: an admin-only operation asked with a token whose role is not admin is
\* answered forbidden, returns nothing and changes no record.
C5_AdminOnlyOpsDenied ==
    \A tok \in tokens :
        (AnsweredFor(tok) /\ Caller(tok).role # "admin" /\ resp.op \in AdminOnlyOps)
        => /\ resp.status = 403
           /\ resp.users = {} /\ resp.orgs = {}
           /\ ~resp.changed

\* A token of role user, of a stored and non-deleted user whose organization
\* is stored and not deleted, has asked DeleteOrganization and was answered
\* forbidden by the admin middleware.
C5_Witness ==
    \E tok \in tokens :
        /\ AnsweredFor(tok)
        /\ Caller(tok).role = "user"
        /\ Caller(tok).user_id \in LiveIDs(users)
        /\ Caller(tok).organization_id \in LiveIDs(orgs)
        /\ resp.op = "DeleteOrganization"
        /\ resp.layer = "admin"
        /\ resp.status = 403

\* C6: GetOrganization and ListOrganizations return no record of an
\* organization other than the one the caller's token names.
C6_OrganizationReadsScoped ==
    \A tok \in tokens :
        (AnsweredFor(tok) /\ resp.op \in {"GetOrganization", "ListOrganizations"})
        => resp.orgs \subseteq {Caller(tok).organization_id}

\* C10: a token issued with the server's secret is accepted by ValidateToken
\* and by the JWT middleware at every instant before its expiry, whatever the
\* tables hold by then; a request that bore it then was never answered by the
\* JWT middleware.
C10_OnlyExpiryEndsAToken ==
    \A tok \in tokens :
        now < ExpiryInstant(tok)
        => /\ ValidateToken(tok, config.secret, now).err = ""
           /\ JWTMiddleware(Bearer(tok), config.secret, now).status = 0
           /\ tok \in resp.bearer => resp.layer # "jwt"

\* The token of a user who has since been deleted, together with the
\* organization, has passed the JWT middleware before its expiry: GetProfile
\* ran and found no user.
C10_Witness ==
    \E tok \in tokens :
        /\ now < ExpiryInstant(tok)
        /\ tok \in resp.bearer
        /\ resp.op = "GetProfile"
        /\ resp.layer = "handler"
        /\ resp.status = 404
        /\ users[Caller(tok).user_id].deleted
        /\ orgs[Caller(tok).organization_id].deleted

\* The header of the latest request is 'Bearer <token>' with a token that
\* ValidateToken accepts with the server's secret now.
BearerAccepted ==
    /\ resp.header.present
    /\ resp.header.parts = 2
    /\ resp.header.scheme = "Bearer"
    /\ \A tok \in resp.header.token : ValidateToken(tok, config.secret, now).err = ""

\* C11: a request to a route behind the JWT middleware whose Authorization
\* header is missing, is not of the form 'Bearer <token>', or carries a token
\* ValidateToken refuses is answered 401 by the middleware: no handler runs,
\* nothing is returned and nothing changes; and whenever a later layer
\* answered, the header was a Bearer header with an accepted token.
C11_NoHandlerWithoutValidToken ==
    resp.op \in ProtectedRoutes
    => /\ ~BearerAccepted
          => /\ resp.status = 401 /\ resp.layer = "jwt"
             /\ resp.users = {} /\ resp.orgs = {} /\ resp.token = {}
             /\ ~resp.changed
       /\ resp.layer # "jwt" => BearerAccepted

\* A token Login issued has been sent, after it expired, to DeleteUser by a
\* user who is still stored and not deleted: the answer is 401.
C11_Witness ==
    \E tok \in tokens :
        /\ resp.op = "DeleteUser"
        /\ resp.header = Bearer(tok)
        /\ now >= ExpiryInstant(tok)
        /\ Caller(tok).user_id \in LiveIDs(users)
        /\ resp.status = 401
        /\ resp.layer = "jwt"

RegisterAnswered(req) ==
    /\ resp.op = "Register"
    /\ req \in resp.body
    /\ req.bind
    /\ validateRegistration(req.name, req.email, req.password) = ""

\* The non-deleted users that held email in organization orgID before the
\* latest request was served. Rows are only ever added at the end of the
\* table, so a row was there before unless it is the last one and the
\* request changed the table.
HeldBefore(email, orgID) ==
    {i \in LiveIDs(users) :
        /\ i < Len(users) \/ ~resp.changed
        /\ users[i].email = email
        /\ users[i].organization_id = orgID}

\* C13: a registration with an email that a non-deleted user of the same
\* organization already holds is answered with an error, returns no user and
\* leaves the users table as it was.
C13_DuplicateEmailRefused ==
    \A req \in resp.body :
        (RegisterAnswered(req) /\ HeldBefore(req.email, req.organization_id) # {})
        => /\ resp.status = 400
           /\ resp.users = {}
           /\ ~resp.changed

\* A valid registration for a stored, non-deleted organization, with the
\* email its admin already holds, has been refused.
C13_Witness ==
    \E req \in resp.body :
        /\ RegisterAnswered(req)
        /\ req.organization_id \in LiveIDs(orgs)
        /\ \E i \in HeldBefore(req.email, req.organization_id) : users[i].role = "admin"
        /\ resp.status = 400

\* C14: a valid registration for a stored, non-deleted organization B, with
\* an email that no user of B holds and a non-deleted user of another
\* organization does, succeeds and persists a second user with that email.
C14_EmailUniquePerOrganization ==
    \A req \in resp.body :
        (/\ RegisterAnswered(req)
         /\ req.organization_id \in LiveIDs(orgs)
         /\ HeldBefore(req.email, req.organization_id) = {}
         /\ \E a \in DOMAIN orgs \ {req.organization_id} : HeldBefore(req.email, a) # {})
        => /\ resp.status = 200
           /\ \E i \in resp.users :
                 /\ i \in LiveIDs(users)
                 /\ users[i].email = req.email
                 /\ users[i].organization_id = req.organization_id

\* C15: no two non-deleted users of one organization have the same email,
\* and every user row names one organization, a stored one, whatever the
\* interleaving of the storage calls of concurrent RegisterUser and
\* UpdateUser requests.
C15_EmailUniqueInOrganization ==
    /\ \A i, j \in LiveIDs(users) :
          (i # j /\ users[i].organization_id = users[j].organization_id)
          => users[i].email # users[j].email
    /\ \A i \in DOMAIN users : users[i].organization_id \in DOMAIN orgs

\* Two concurrent requests asked for the same email in the same
\* organization, a RegisterUser and an UpdateUser; both passed their lookup
\* of the email before either wrote, one wrote and the other was refused by
\* the table.
C15_Witness ==
    \E p, q \in 1..NumProcs :
        /\ procs[p].op = "RegisterUser" /\ procs[p].pc = "done" /\ procs[p].err = ""
        /\ procs[q].op = "UpdateUser" /\ procs[q].pc = "done"
        /\ procs[q].email = procs[p].email
        /\ \E u \in procs[q].snap : u.organization_id = procs[p].organization_id
        /\ procs[q].err = "duplicate key value violates unique constraint"

\* C16: a registration that names no stored organization, or one that is
\* soft-deleted (the only deactivation an organization has), is answered with
\* an error and persists nothing; a registration that succeeds created its
\* user in the stored, non-deleted organization it named.
C16_RegisterNeedsLiveOrganization ==
    \A req \in resp.body :
        (resp.op = "Register" /\ req.bind)
        => /\ req.organization_id \notin LiveIDs(orgs)
              => (resp.status = 400 /\ resp.users = {} /\ ~resp.changed)
           /\ resp.status = 200
              => /\ req.organization_id \in LiveIDs(orgs)
                 /\ \A i \in resp.users : users[i].organization_id = req.organization_id

\* A valid registration, with an email no stored user holds, for an
\* organization that is stored and soft-deleted has been refused.
C16_Witness ==
    \E req \in resp.body :
        /\ RegisterAnswered(req)
        /\ req.organization_id \in DOMAIN orgs
        /\ orgs[req.organization_id].deleted
        /\ \A i \in DOMAIN users : users[i].email # req.email
        /\ resp.status = 400

\* The Login requests whose body binds.
BoundLogins == {req \in LoginRequests : req.bind}

LoginResult(req) ==
    LoginService(users, config, req.email, req.password, req.organization_id, now)

\* The non-deleted users a login request's lookup finds.
LoginFinds(req) ==
    IF req.organization_id > 0
        THEN UserFindByEmailAndOrganization(users, req.email, req.organization_id)
        ELSE UserFindByEmail(users, req.email)

\* C17: a Login that fails is answered 401 with no token and no data, and
\* every other attempt that fails on the same tables, whether for an unknown
\* (email, organization) or for a wrong password, gets the same service
\* error and the same HTTP response.
C17_LoginFailuresAlike ==
    \A req \in resp.body :
        (resp.op = "Login" /\ req.bind /\ resp.status # 200)
        => /\ resp.status = 401 /\ resp.token = {} /\ resp.users = {} /\ ~resp.changed
           /\ LoginResult(req).token = {}
           /\ \A r2 \in BoundLogins :
                 LoginResult(r2).err # ""
                 => /\ LoginResult(r2) = LoginResult(req)
                    /\ LoginHandler(users, orgs, config, r2, now)
                       = LoginHandler(users, orgs, config, req, now)

\* A login with a wrong password for a stored, non-deleted user has been
\* answered 401 in a state where a login for an email nobody holds fails too.
C17_Witness ==
    /\ \E req \in resp.body :
          /\ resp.op = "Login"
          /\ LoginFinds(req) # {}
          /\ req.password = "wrong"
          /\ resp.status = 401
    /\ \E r2 \in BoundLogins : LoginFinds(r2) = {} /\ LoginResult(r2).err # ""

\* The token of a successful Login carries the id, the stored organization
\* and the stored role of user i.
TokenIsOf(i) ==
    /\ resp.token # {}
    /\ \A tok \in resp.token :
          /\ Caller(tok).user_id = i
          /\ Caller(tok).organization_id = users[i].organization_id
          /\ Caller(tok).role = users[i].role

\* C18 as stated: a Login for (email, password, organization O) succeeds only
\* if a non-deleted user with that email is stored in O and the password
\* verifies against its digest, and the token carries that user's id, O and
\* that user's stored role.
C18_LoginOfOrganization ==
    \A req \in resp.body :
        (resp.op = "Login" /\ resp.status = 200)
        => \E i \in LiveIDs(users) :
              /\ users[i].email = req.email
              /\ users[i].organization_id = req.organization_id
              /\ ValidatePassword(users[i], req.password)
              /\ TokenIsOf(i)

\* C18, amended: a Login that names an organization O > 0 succeeds only for
\* a non-deleted user of O; a Login that names none (organization_id absent
\* or 0) succeeds for the non-deleted user with that email in whatever
\* organization; in both cases the password verifies against that user's
\* digest and the token carries that user's id, stored organization and
\* stored role.
C18_LoginOfStoredUser ==
    \A req \in resp.body :
        (resp.op = "Login" /\ resp.status = 200)
        => \E i \in LiveIDs(users) :
              /\ users[i].email = req.email
              /\ req.organization_id > 0 => users[i].organization_id = req.organization_id
              /\ ValidatePassword(users[i], req.password)
              /\ TokenIsOf(i)

\* A Login that names no organization has succeeded for a user of
\* organization 2 whose role is admin.
C18_Witness ==
    \E req \in resp.body :
        /\ resp.op = "Login"
        /\ resp.status = 200
        /\ req.organization_id = 0
        /\ \E i \in LiveIDs(users) :
              /\ users[i].email = req.email
              /\ users[i].organization_id = 2
              /\ users[i].role = "admin"
              /\ TokenIsOf(i)

\* C19: a DeleteOrganization that succeeds leaves the organization and every
\* user of it marked deleted; one that fails leaves the tables as they were;
\* and in no state is an organization marked deleted while a user of it is
\* not.
C19_DeleteOrganizationAtomic ==
    /\ (resp.op = "DeleteOrganization" /\ resp.layer = "handler")
       => /\ resp.status = 200
             => /\ resp.id \in DOMAIN orgs
                /\ orgs[resp.id].deleted
                /\ \A i \in DOMAIN users :
                      users[i].organization_id = resp.id => users[i].deleted
          /\ resp.status # 200 => ~resp.changed
    /\ \A o \in DOMAIN orgs :
          orgs[o].deleted
          => \A i \in DOMAIN users : users[i].organization_id = o => users[i].deleted

\* DeleteOrganization has succeeded on an organization with two users, its
\* admin and a member.
C19_Witness ==
    /\ resp.op = "DeleteOrganization"
    /\ resp.status = 200
    /\ resp.changed
    /\ \E i, j \in DOMAIN users :
          /\ i # j
          /\ users[i].organization_id = resp.id /\ users[i].role = "admin"
          /\ users[j].organization_id = resp.id /\ users[j].role = "user"
          /\ users[i].deleted /\ users[j].deleted

\* The user a successful DeleteUser or DeleteUserByID response is about: the
\* caller, or the user the path names.
DeletedTarget == IF resp.op = "DeleteUser" THEN GetUserID(resp.ctx) ELSE resp.id

\* C20: a user deletion that succeeds keeps the row and marks it deleted;
\* GetUserByID of a deleted user or of an id that names no row is answered
\* not found and returns nothing, and a login with a deleted user's email
\* fails; GetUserByID of a stored, non-deleted user returns the user with
\* that id (unless the caller may not see it).
C20_SoftDeleteHidesUser ==
    /\ (resp.op \in {"DeleteUser", "DeleteUserByID"} /\ resp.status = 200)
       => /\ DeletedTarget \in DOMAIN users
          /\ users[DeletedTarget].deleted
          /\ users[DeletedTarget].email \in Emails
    /\ (resp.op = "GetUserByID" /\ resp.layer = "handler" /\ resp.id >= 0)
       => /\ resp.id \notin LiveIDs(users) => (resp.status = 404 /\ resp.users = {})
          /\ resp.id \in LiveIDs(users)
             => \/ resp.status = 200 /\ resp.users = {resp.id}
                \/ resp.status = 403 /\ resp.users = {}
    /\ \A req \in resp.body :
          (resp.op = "Login"
           /\ \E i \in DOMAIN users : users[i].deleted /\ users[i].email = req.email)
          => (resp.status = 401 /\ resp.token = {})

\* A login with the email and the password of a user who was deleted, in an
\* organization that still is not, has been refused.
C20_Witness ==
    \E req \in resp.body :
        /\ resp.op = "Login"
        /\ resp.status = 401
        /\ \E i \in DOMAIN users :
              /\ users[i].deleted
              /\ users[i].email = req.email
              /\ users[i].organization_id = req.organization_id
              /\ ValidatePassword(users[i], req.password)
              /\ users[i].organization_id \in LiveIDs(orgs)

\* The latest request, which bore token tok, asked for something the token
\* does not entitle its bearer to: an admin-only route with a role that is not
\* admin, or a by-id operation on a stored, non-deleted user or organization
\* outside the token's organization.
LacksPrivilege(tok) ==
    \/ resp.op \in AdminOnlyOps /\ Caller(tok).role # "admin"
    \/ /\ resp.op \in ByIdUserOps
       /\ resp.layer = "handler"
       /\ resp.id \in LiveIDs(users)
       /\ users[resp.id].organization_id # Caller(tok).organization_id
    \/ /\ resp.op \in ByIdOrganizationOps
       /\ resp.layer = "handler"
       /\ resp.id \in LiveIDs(orgs)
       /\ resp.id # Caller(tok).organization_id

\* C21: on the routes behind the JWT middleware, a request without an
\* accepted Bearer token is answered 401, a request with an accepted token is
\* never answered 401, and a request with an accepted token that lacks the
\* role or the organization the operation requires is answered 403 (or 400
\* when the request itself is malformed).
C21_AuthFailuresDistinct ==
    resp.op \in ProtectedRoutes
    => /\ ~BearerAccepted => resp.status = 401
       /\ BearerAccepted => resp.status # 401
       /\ \A tok \in tokens :
             (AnsweredFor(tok) /\ LacksPrivilege(tok)) => resp.status \in {400, 403}

\* C22: GetUserByID asked with a token of organization A for the id of a
\* stored, non-deleted user of another organization is answered exactly as
\* the same request for an id that no user has (id 0): same status, same
\* data.
C22_CrossTenantReadAsAbsent ==
    \A tok \in tokens :
        (/\ AnsweredFor(tok)
         /\ resp.op = "GetUserByID"
         /\ resp.layer = "handler"
         /\ resp.id \in LiveIDs(users)
         /\ users[resp.id].organization_id # Caller(tok).organization_id)
        => LET absent == GetUserByIDHandler(users, orgs, resp.ctx, 0)
           IN /\ absent.status = 404
              /\ resp.status = absent.status
              /\ resp.users = absent.retUsers

\* C23: no two non-deleted organizations have the same name, whatever the
\* interleaving of the storage calls of concurrent CreateOrganization
\* requests; and a CreateOrganization that found its name taken has created
\* neither an organization nor an admin.
C23_OrganizationNamesUnique ==
    /\ \A i, j \in LiveIDs(orgs) : orgs[i].name = orgs[j].name => i = j
    /\ \A p \in 1..NumProcs :
          (/\ procs[p].op = "CreateOrganization"
           /\ procs[p].err = "organization name already exists")
          => procs[p].organization_id = 0 /\ procs[p].id = 0

\* The user ids the tokens of the request just answered name.
BearerUserIDs == {Caller(tok).user_id : tok \in resp'.bearer}

\* C24: a request to PUT /api/users or DELETE /api/users leaves the
\* organizations table and every user record other than the one the token's
\* user_id names as they were, changes the organization and the role of no
\* user, adds no user, and only DELETE /api/users marks a user deleted: the
\* token's user, when it answers 200.
C24_SelfServiceActsOnCaller ==
    [][resp'.op \in {"UpdateUser", "DeleteUser"}
       => /\ orgs' = orgs
          /\ DOMAIN users' = DOMAIN users
          /\ \A i \in DOMAIN users :
                /\ i \notin BearerUserIDs => users'[i] = users[i]
                /\ users'[i].organization_id = users[i].organization_id
                /\ users'[i].role = users[i].role
                /\ users'[i].deleted # users[i].deleted
                   => resp'.op = "DeleteUser" /\ resp'.status = 200 /\ users'[i].deleted
          /\ (resp'.op = "DeleteUser" /\ resp'.status = 200)
             => \A i \in BearerUserIDs : users'[i].deleted]_vars

\* PUT /api/users has changed the record of the token's user while another
\* non-deleted user of the same organization is stored.
C24_Witness ==
    \E tok \in tokens :
        /\ AnsweredFor(tok)
        /\ resp.op = "UpdateUser"
        /\ resp.status = 200
        /\ resp.changed
        /\ \E i \in LiveIDs(users) :
              /\ i # Caller(tok).user_id
              /\ users[i].organization_id = Caller(tok).organization_id

\* C25: the stored password of every user is a digest of the password the
\* user last set (the one given at registration, or the one of the latest
\* UpdateUser that carried a password), so ValidatePassword, and with it
\* login, accepts that password after any UpdateUser and UpdateUserRole.
C25_PasswordSurvivesUpdates ==
    \A i \in DOMAIN users : ValidatePassword(users[i], users[i].password.plain)

\* User i holds role admin after the step and did not before it.
BecomesAdmin(i) ==
    /\ users'[i].role = "admin"
    /\ ~users'[i].deleted
    /\ i \notin DOMAIN users \/ users[i].role # "admin"

\* C26: a user becomes an admin only as the admin CreateOrganization creates
\* with its organization, or through UpdateUserRole asked with an admin token
\* of the user's organization; Register never stores an admin; and every
\* stored role is "admin" or "user".
C26_NoAdminThroughRegistration ==
    [][/\ \A i \in DOMAIN users' :
             /\ users'[i].role \in {"admin", "user"}
             /\ BecomesAdmin(i)
                => \/ resp'.op = "CreateOrganization" /\ i \notin DOMAIN users
                   \/ /\ resp'.op = "UpdateUserRole"
                      /\ resp'.id = i
                      /\ resp'.ctx.role = "admin"
                      /\ resp'.ctx.organization_id = users'[i].organization_id
       /\ resp'.op = "Register" => \A i \in resp'.users : users'[i].role = "user"]_vars

\* The admin-only routes that change records.
AdminMutations ==
    {"UpdateUserRole", "DeleteUserByID", "UpdateOrganization", "DeleteOrganization"}

C28_UsersOfLiveOrganizations ==
    \A i \in LiveIDs(users) :
        \/ users[i].organization_id \in LiveIDs(orgs)
        \/ \E p \in 1..NumProcs : procs[p].op = "CreateOrganization" /\ procs[p].id = i

\* Organization o has a non-deleted user of role admin in the table us.
HasAdmin(us, o) ==
    \E i \in LiveIDs(us) : us[i].organization_id = o /\ us[i].role = "admin"

\* C29: every non-deleted organization has a non-deleted user of role admin,
\* and every non-deleted admin belongs to a non-deleted organization. Step
\* by step: an organization a request has created with success has its
\* admin, an organization that had an admin before a request and is not
\* deleted after it still has one, and after every request each non-deleted
\* admin is in a non-deleted organization.
C29_OrganizationKeepsAnAdmin ==
    [][/\ \A o \in LiveIDs(orgs') :
             /\ (o \notin DOMAIN orgs /\ resp'.status = 200) => HasAdmin(users', o)
             /\ (o \in LiveIDs(orgs) /\ HasAdmin(users, o)) => HasAdmin(users', o)
       /\ \A i \in LiveIDs(users') :
             users'[i].role = "admin" => users'[i].organization_id \in LiveIDs(orgs')]_vars

ListOps == {"ListUsers", "ListOrganizations", "ListOrganizationUsers"}

\* The rows the latest list request asked about, and the ids it returned.
Listed ==
    IF resp.op = "ListOrganizations" THEN LiveIDs(orgs)
    ELSE LET o == IF resp.op = "ListUsers" THEN resp.ctx.organization_id ELSE resp.id
         IN {i \in LiveIDs(users) : users[i].organization_id = o}
Returned == IF resp.op = "ListOrganizations" THEN resp.orgs ELSE resp.users

\* The ceiling of total / n, for n > 0.
Ceiling(total, n) == (total + n - 1) \div n

\* C30: a list request that reached its handler and names a stored,
\* non-deleted organization is answered 200 whatever page and per_page are:
\* it returns the rows from offset (page - 1) * per_page on, with page below
\* 1 taken as 1 and per_page below 1 as 10, and its page count is the
\* ceiling of total / per_page for that same effective per_page.
C30_ListsAnswerForEveryPage ==
    \A q \in resp.query :
        (/\ resp.op \in ListOps
         /\ resp.layer = "handler"
         /\ resp.op = "ListUsers" => resp.ctx.organization_id \in LiveIDs(orgs)
         /\ resp.op = "ListOrganizationUsers" => resp.id \in LiveIDs(orgs))
        => LET per == EffectivePerPage(q.per_page)
               page == EffectivePage(q.page)
           IN /\ resp.status = 200
              /\ Returned = Page(Listed, (page - 1) * per, per)
              /\ q.per_page # 0
                 => TotalPages(Cardinality(Listed), q.per_page)
                    = Ceiling(Cardinality(Listed), per)


====
